---------------------------- MODULE Spec2Model ----------------------------
(***************************************************************************)
(* Model of HousePricePrediction.py, a Streamlit script.  Streamlit runs   *)
(* the whole script top to bottom once per user interaction; the widget    *)
(* values and the uploaded files live in the session between two runs,     *)
(* every module-level name of the script (model, base64_image_urls, ...)   *)
(* is rebuilt by each run, and the page shows what the latest run drew.    *)
(*                                                                         *)
(* Numbers: the two float controls (bathrooms, floors) are kept in         *)
(* hundredths (2.0 is 200); keyframe percentages are kept in hundredths of *)
(* a percent, which is what the script's "{x:.2f}%" prints.                *)
(***************************************************************************)
EXTENDS Integers, Sequences, FiniteSets, TLC

VARIABLES
    model_file,         \* what MODEL_PATH (lr_model.pkl) is on disk
    pickle_loads,       \* pickle.load calls since the process started
    widgets,            \* session: current value of the seven controls
    uploaded_files,     \* session: value of the file uploader
    interval_per_image, \* argument of set_cinematic_bg
    model,              \* script global `model` after the load block
    base64_image_urls,  \* script global built by the sidebar loop
    css,                \* what set_cinematic_bg emitted
    page,               \* elements drawn by the latest run
    run,                \* what the latest run did (trigger, predict calls)
    prev_result         \* history: page.result of the run before the latest

vars == <<model_file, pickle_loads, widgets, uploaded_files, interval_per_image,
          model, base64_image_urls, css, page, run, prev_result>>

---------------------------------------------------------------------------
(* Bounds of the model *)

MaxLoads == 3
MaxFiles == 1
MaxBatch == 3

SeqsUpTo(S, n) == UNION {[1..k -> S] : k \in 0..n}

---------------------------------------------------------------------------
(* Configuration *)

FEATURE_NAMES ==
    <<"sqft_living", "bedrooms", "bathrooms", "floors", "grade", "waterfront", "yr_built">>

BASE64_FALLBACK_IMAGE == <<"data:", "image/svg+xml", ";base64,", <<>>>>

DefaultInterval == 6

---------------------------------------------------------------------------
(* Python exceptions: which except clause catches what *)

IsInstance(exc, cls) ==
    \/ exc = cls
    \/ cls = "Exception" /\ exc \in {"FileNotFoundError", "UnpicklingError",
                                     "ValueError", "PredictError"}

\* first clause of `handlers` that catches exc, 0 when none does
RECURSIVE CaughtBy(_, _, _)
CaughtBy(handlers, exc, k) ==
    IF k > Len(handlers) THEN 0
    ELSE IF IsInstance(exc, handlers[k]) THEN k
    ELSE CaughtBy(handlers, exc, k + 1)

\* truth value of `if x:` for the objects of the model
Truthy(x) == x \notin {"None", "FalsyObject"}

---------------------------------------------------------------------------
(* get_base64_image_url *)

Pad == 64   \* the '=' of base64; 0..63 are the alphabet's positions

RECURSIVE b64encode(_)
b64encode(bs) ==
    IF Len(bs) = 0 THEN <<>>
    ELSE IF Len(bs) = 1 THEN
        <<bs[1] \div 4, (bs[1] % 4) * 16, Pad, Pad>>
    ELSE IF Len(bs) = 2 THEN
        <<bs[1] \div 4, (bs[1] % 4) * 16 + bs[2] \div 16, (bs[2] % 16) * 4, Pad>>
    ELSE
        <<bs[1] \div 4, (bs[1] % 4) * 16 + bs[2] \div 16,
          (bs[2] % 16) * 4 + bs[3] \div 64, bs[3] % 64>>
        \o b64encode(SubSeq(bs, 4, Len(bs)))

\* an uploaded file: getvalue() raises when it is not readable
FilePool ==
    { [readable |-> TRUE,  type |-> "image/png",  bytes |-> <<137, 80, 78, 71>>],
      [readable |-> TRUE,  type |-> "image/jpeg", bytes |-> <<255, 216>>],
      [readable |-> TRUE,  type |-> "",           bytes |-> <<137, 80, 78>>],
      [readable |-> FALSE, type |-> "image/png",  bytes |-> <<>>] }

NoUrl == <<>>   \* Python's None as the returned url

\* (variant: a failing file ends the batch)
RECURSIVE UploadLoop_StopAtFailure(_, _, _)
UploadLoop_StopAtFailure(files, k, acc) ==
    IF k > Len(files) \/ Len(acc.errors) > 0 THEN acc
    ELSE IF files[k].readable
    THEN UploadLoop_StopAtFailure(files, k + 1,
            [acc EXCEPT !.urls = Append(@,
                <<"data:", IF files[k].type # "" THEN files[k].type ELSE "image/png",
                  ";base64,", b64encode(files[k].bytes)>>)])
    ELSE [acc EXCEPT !.errors = Append(@, k)]

get_base64_image_url(uploaded_file) ==
    LET raised == IF uploaded_file.readable THEN "none" ELSE "ValueError"
        caught == CaughtBy(<<"Exception">>, raised, 1)
        mime_type == IF uploaded_file.type # "" THEN uploaded_file.type ELSE "image/png"
    IN  IF raised = "none"
        THEN [url   |-> <<"data:", mime_type, ";base64,", b64encode(uploaded_file.bytes)>>,
              error |-> FALSE, escaped |-> FALSE]
        ELSE IF caught = 1
        THEN [url |-> NoUrl, error |-> TRUE, escaped |-> FALSE]
        ELSE [url |-> NoUrl, error |-> FALSE, escaped |-> TRUE]

\* the sidebar's `for file in uploaded_files` loop, from file k on; acc is
\* [urls, errors, escaped] so far
RECURSIVE UploadLoop(_, _, _)
UploadLoop(files, k, acc) ==
    IF k > Len(files) \/ acc.escaped THEN acc
    ELSE LET r == get_base64_image_url(files[k])
         IN  UploadLoop(files, k + 1,
                [urls    |-> IF r.url # NoUrl THEN Append(acc.urls, r.url) ELSE acc.urls,
                 errors  |-> IF r.error THEN Append(acc.errors, k) ELSE acc.errors,
                 escaped |-> r.escaped])

Sidebar(files) ==
    LET done == IF Len(files) > 0
                THEN UploadLoop(files, 1, [urls |-> <<>>, errors |-> <<>>, escaped |-> FALSE])
                ELSE [urls |-> <<>>, errors |-> <<>>, escaped |-> FALSE]
    IN  [urls    |-> done.urls,
         errors  |-> done.errors,
         escaped |-> done.escaped,
         info    |-> Len(files) > 0 /\ Len(files) < 3]

---------------------------------------------------------------------------
(* set_cinematic_bg *)

\* "{p/q:.2f}" as an integer number of hundredths: p/q in hundredths, rounded
\* to the nearest, a tie going to the even neighbour (for the sizes modelled
\* here every tie is a binary fraction, so the float holds it exactly)
Fmt2(p, q) ==
    LET fl == p \div q
        rem == p % q
    IN  IF 2 * rem < q THEN fl
        ELSE IF 2 * rem > q THEN fl + 1
        ELSE IF fl % 2 = 0 THEN fl ELSE fl + 1

\* start_percent = (i * 100) / num_images
StartPercent(i, num_images) == Fmt2(i * 10000, num_images)

\* hold_percent = start_percent + (100 / num_images) * (1 - 1 / interval_per_image)
HoldPercent(i, num_images, interval) ==
    Fmt2(10000 * (i * interval + interval - 1), interval * num_images)

Keyframe(percent, url) == [percent |-> percent, url |-> url]

\* the `for i in range(num_images)` loop, from i on (i counts from 0)
RECURSIVE KeyframeLoop(_, _, _)
KeyframeLoop(base64_urls, interval, i) ==
    LET num_images == Len(base64_urls)
    IN  IF i >= num_images THEN <<>>
        ELSE <<Keyframe(StartPercent(i, num_images), base64_urls[i + 1])>>
             \o (IF i < num_images - 1
                 THEN <<Keyframe(HoldPercent(i, num_images, interval), base64_urls[i + 1])>>
                 ELSE <<>>)
             \o KeyframeLoop(base64_urls, interval, i + 1)

\* (variant: the cycle lasts one interval whatever the number of images)
set_cinematic_bg_OneInterval(base64_urls, interval) ==
    LET num_images == Len(base64_urls)
    IN  IF num_images = 0
        THEN [warning |-> TRUE, animated |-> FALSE, duration |-> 0,
              image |-> BASE64_FALLBACK_IMAGE, keyframes |-> <<>>]
        ELSE [warning |-> FALSE, animated |-> TRUE, duration |-> interval,
              image |-> base64_urls[1],
              keyframes |-> KeyframeLoop(base64_urls, interval, 0)
                            \o <<Keyframe(10000, base64_urls[1])>>]

set_cinematic_bg(base64_urls, interval) ==
    LET num_images == Len(base64_urls)
        total_duration == num_images * interval
    IN  IF num_images = 0
        THEN [warning |-> TRUE, animated |-> FALSE, duration |-> 0,
              image |-> BASE64_FALLBACK_IMAGE, keyframes |-> <<>>]
        ELSE [warning |-> FALSE, animated |-> TRUE, duration |-> total_duration,
              image |-> base64_urls[1],
              keyframes |-> KeyframeLoop(base64_urls, interval, 0)
                            \o <<Keyframe(10000, base64_urls[1])>>]

NoCss == [warning |-> FALSE, animated |-> FALSE, duration |-> 0,
          image |-> NoUrl, keyframes |-> <<>>]

---------------------------------------------------------------------------
(* Load block *)

\* lr_model.pkl is absent, is not a pickle, or holds a pickled object
ModelFileStates == {"missing", "corrupt", "LinearRegression", "FalsyObject"}

LoadHandlers == <<"FileNotFoundError", "Exception">>

LoadModelWith(file, handlers) ==
    LET raised == IF file = "missing" THEN "FileNotFoundError"
                  ELSE IF file = "corrupt" THEN "UnpicklingError"
                  ELSE "none"
        caught == CaughtBy(handlers, raised, 1)
    IN  [model     |-> IF raised = "none" THEN file ELSE "None",
         unpickled |-> file # "missing",
         raised    |-> raised,
         error     |-> IF raised = "none" \/ caught = 0 THEN "none"
                       ELSE IF handlers[caught] = "FileNotFoundError" THEN "not_found"
                       ELSE "load_error",
         escaped   |-> raised # "none" /\ caught = 0]

\* (variant: only the missing file is handled)
LoadModel_OnlyNotFound(file) == LoadModelWith(file, <<"FileNotFoundError">>)

LoadModel(file) == LoadModelWith(file, LoadHandlers)

---------------------------------------------------------------------------
(* Tab 1: the input form and the Predict Price button *)

\* declared range of each control (bathrooms and floors in hundredths)
ControlRange ==
    [sqft_living |-> 300..15000,
     bedrooms    |-> 0..15,
     bathrooms   |-> {25 * k : k \in 0..40},
     floors      |-> {100, 150, 200, 250, 300, 350},
     grade       |-> 1..13,
     waterfront  |-> {0, 1},
     yr_built    |-> 1900..2024]

Defaults ==
    [sqft_living |-> 2000, bedrooms |-> 3, bathrooms |-> 200, floors |-> 200,
     grade |-> 7, waterfront |-> 0, yr_built |-> 2000]

\* the values the model lets the user enter: the default and one more
ControlChoices ==
    [sqft_living |-> {2000, 15000},
     bedrooms    |-> {3, 0},
     bathrooms   |-> {200, 25},
     floors      |-> {200, 350},
     grade       |-> {7, 13},
     waterfront  |-> {0, 1},
     yr_built    |-> {2000, 1900}]

\* what model.predict does on a call: raises, or returns [price]
PredictOutcomes ==
    {[raises |-> TRUE, value |-> 0], [raises |-> FALSE, value |-> 500000]}

NoOutcome == [raises |-> TRUE, value |-> 0]   \* for runs that never reach predict

\* (variant: two values change places in the list)
InputData_Swapped(w) ==
    <<w.sqft_living, w.bedrooms, w.floors, w.bathrooms, w.grade, w.waterfront, w.yr_built>>

InputData(w) ==
    <<w.sqft_living, w.bedrooms, w.bathrooms, w.floors, w.grade, w.waterfront, w.yr_built>>

\* pd.DataFrame([input_data], columns=FEATURE_NAMES): one row, labelled by position
DataFrame(input_data, columns) == [columns |-> columns, row |-> input_data]

NoFrame == [columns |-> <<>>, row |-> <<>>]

NoTab1 ==
    [form |-> FALSE, unavailable_warning |-> FALSE, pressed |-> FALSE,
     predict_calls |-> 0, predict_outcome |-> "not_called", features_df |-> NoFrame,
     result |-> "none", price |-> 0, escaped |-> FALSE]

\* the try/except around model.predict and the price box
PredictBlockWith(features_df, outcome, handlers) ==
    LET raised == IF outcome.raises THEN "PredictError" ELSE "none"
        caught == CaughtBy(handlers, raised, 1)
    IN  [NoTab1 EXCEPT
            !.form = TRUE,
            !.pressed = TRUE,
            !.predict_calls = 1,
            !.predict_outcome = IF raised = "none" THEN "returned" ELSE "raised",
            !.features_df = features_df,
            !.result = IF raised = "none" THEN "price"
                       ELSE IF caught > 0 THEN "failed" ELSE "none",
            !.price = IF raised = "none" THEN outcome.value ELSE 0,
            !.escaped = raised # "none" /\ caught = 0]

\* (variant: after a failed prediction the handler stops calling predict)
PredictBlock_DisabledAfterFailure(features_df, outcome) ==
    IF page.result = "failed"
    THEN [NoTab1 EXCEPT !.form = TRUE, !.pressed = TRUE, !.features_df = features_df,
                        !.result = "failed"]
    ELSE PredictBlockWith(features_df, outcome, <<"Exception">>)

PredictBlock(features_df, outcome) ==
    PredictBlockWith(features_df, outcome, <<"Exception">>)

\* (variant: the block under the button runs in every run)
Button_EveryRun(trigger) == TRUE

\* st.button(...): True only in the run its click started
Button(trigger) == trigger = "submit"

\* (variant: the last result is kept and drawn again by later runs)
Tab1_KeepsLastResult(mdl, w, trigger, outcome) ==
    IF Truthy(mdl)
    THEN IF Button(trigger)
         THEN PredictBlock(DataFrame(InputData(w), FEATURE_NAMES), outcome)
         ELSE [NoTab1 EXCEPT !.form = TRUE, !.result = page.result, !.price = page.price,
                             !.features_df = page.features_df]
    ELSE [NoTab1 EXCEPT !.unavailable_warning = TRUE]

Tab1(mdl, w, trigger, outcome) ==
    IF Truthy(mdl)
    THEN IF Button(trigger)
         THEN PredictBlock(DataFrame(InputData(w), FEATURE_NAMES), outcome)
         ELSE [NoTab1 EXCEPT !.form = TRUE]
    ELSE [NoTab1 EXCEPT !.unavailable_warning = TRUE]

---------------------------------------------------------------------------
(* One run of the script, top to bottom *)

NoPage ==
    [drawn |-> FALSE, escaped |-> FALSE, load_error |-> "none", sidebar |-> FALSE,
     image_errors |-> <<>>, form |-> FALSE, unavailable_warning |-> FALSE,
     result |-> "none", price |-> 0, features_df |-> NoFrame]

NoRun ==
    [trigger |-> "none", load_raised |-> "none", unpickled |-> FALSE, pressed |-> FALSE,
     predict_calls |-> 0, predict_outcome |-> "not_called"]

Script(file, trigger, w, files, interval, outcome) ==
    LET load == LoadModel(file)
        side == Sidebar(files)
        bg   == set_cinematic_bg(side.urls, interval)
        tab1 == Tab1(load.model, w, trigger, outcome)
        run0 == [NoRun EXCEPT !.trigger = trigger, !.load_raised = load.raised,
                              !.unpickled = load.unpickled]
        pg0  == [NoPage EXCEPT !.drawn = TRUE, !.load_error = load.error]
    IN  IF load.escaped
        THEN [model |-> "None", urls |-> <<>>, css |-> NoCss, run |-> run0,
              page |-> [pg0 EXCEPT !.escaped = TRUE]]
        ELSE IF side.escaped
        THEN [model |-> load.model, urls |-> side.urls, css |-> NoCss, run |-> run0,
              page |-> [pg0 EXCEPT !.escaped = TRUE, !.sidebar = TRUE,
                                   !.image_errors = side.errors]]
        ELSE [model |-> load.model, urls |-> side.urls, css |-> bg,
              run   |-> [run0 EXCEPT !.pressed = tab1.pressed,
                                     !.predict_calls = tab1.predict_calls,
                                     !.predict_outcome = tab1.predict_outcome],
              page  |-> [pg0 EXCEPT !.escaped = tab1.escaped,
                                    !.sidebar = TRUE,
                                    !.image_errors = side.errors,
                                    !.form = tab1.form,
                                    !.unavailable_warning = tab1.unavailable_warning,
                                    !.result = tab1.result,
                                    !.price = tab1.price,
                                    !.features_df = tab1.features_df]]

\* the state after a run started by `trigger` with session state (w, files)
Rerun(trigger, w, files, outcome) ==
    /\ pickle_loads < MaxLoads
    /\ \E r \in {Script(model_file, trigger, w, files, DefaultInterval, outcome)} :
         /\ pickle_loads' = IF r.run.unpickled THEN pickle_loads + 1 ELSE pickle_loads
         /\ widgets' = w
         /\ uploaded_files' = files
         /\ model' = r.model
         /\ base64_image_urls' = r.urls
         /\ css' = r.css
         /\ page' = r.page
         /\ run' = r.run
         /\ prev_result' = page.result
         /\ UNCHANGED <<model_file, interval_per_image>>

---------------------------------------------------------------------------
(* The session *)

Init ==
    /\ model_file \in ModelFileStates
    /\ pickle_loads = 0
    /\ widgets = Defaults
    /\ uploaded_files = <<>>
    /\ interval_per_image = DefaultInterval
    /\ model = "None"
    /\ base64_image_urls = <<>>
    /\ css = NoCss
    /\ page = NoPage
    /\ run = NoRun
    /\ prev_result = "none"

\* a browser opens (or reloads) the page: a new session with default widgets
PageLoad ==
    /\ Rerun("page_load", Defaults, <<>>, NoOutcome)

\* the user changes one control of the form
ChangeInput ==
    /\ page.form
    /\ \E name \in DOMAIN ControlChoices :
         \E v \in ControlChoices[name] \ {widgets[name]} :
            Rerun("input_change", [widgets EXCEPT ![name] = v], uploaded_files, NoOutcome)

\* the user changes the content of the file uploader
UploadImages ==
    /\ page.sidebar
    /\ \E files \in SeqsUpTo(FilePool, MaxFiles) \ {uploaded_files} :
         Rerun("upload", widgets, files, NoOutcome)

\* the user clicks Predict Price
ClickPredict ==
    /\ page.form
    /\ \E outcome \in PredictOutcomes :
         Rerun("submit", widgets, uploaded_files, outcome)

\* lr_model.pkl is replaced, removed or created while the process runs
ModelFileChanges ==
    /\ \E f \in ModelFileStates \ {model_file} : model_file' = f
    /\ UNCHANGED <<pickle_loads, widgets, uploaded_files, interval_per_image, model,
                   base64_image_urls, css, page, run, prev_result>>

Next ==
    \/ PageLoad
    \/ ChangeInput
    \/ UploadImages
    \/ ClickPredict
    \/ ModelFileChanges

Spec == Init /\ [][Next]_vars

---------------------------------------------------------------------------
(* The sidebar loop and set_cinematic_bg on their own, over every batch of *)
(* files and several intervals                                             *)

Intervals == {1, 2, 3, 6}

InitBg ==
    /\ model_file = "LinearRegression"
    /\ pickle_loads = 0
    /\ widgets = Defaults
    /\ uploaded_files \in SeqsUpTo(FilePool, MaxBatch)
    /\ interval_per_image \in Intervals
    /\ model = "None"
    /\ base64_image_urls = <<>>
    /\ css = NoCss
    /\ page = NoPage
    /\ run = NoRun
    /\ prev_result = "none"

ProcessUploads ==
    /\ run.trigger = "none"
    /\ \E side \in {Sidebar(uploaded_files)} :
         /\ base64_image_urls' = side.urls
         /\ page' = [page EXCEPT !.sidebar = TRUE, !.escaped = side.escaped,
                                 !.image_errors = side.errors]
    /\ run' = [run EXCEPT !.trigger = "sidebar"]
    /\ UNCHANGED <<model_file, pickle_loads, widgets, uploaded_files, interval_per_image,
                   model, css, prev_result>>

CallSetCinematicBg ==
    /\ run.trigger = "sidebar"
    /\ ~page.escaped
    /\ css' = set_cinematic_bg(base64_image_urls, interval_per_image)
    /\ run' = [run EXCEPT !.trigger = "set_cinematic_bg"]
    /\ UNCHANGED <<model_file, pickle_loads, widgets, uploaded_files, interval_per_image,
                   model, base64_image_urls, page, prev_result>>

NextBg ==
    \/ ProcessUploads
    \/ CallSetCinematicBg

SpecBg == InitBg /\ [][NextBg]_vars

---------------------------------------------------------------------------
(* Properties *)

Abs(x) == IF x < 0 THEN -x ELSE x

\* a keyframe position p (hundredths of a percent) is num/den hundredths as
\* printed with two decimals: within half a hundredth of it
PrintedAt(p, num, den) == 2 * Abs(p * den - num) <= den

\* the bytes a base64 text stands for
RECURSIVE b64decode(_)
b64decode(cs) ==
    IF Len(cs) < 4 THEN <<>>
    ELSE LET b1 == cs[1] * 4 + cs[2] \div 16
             b2 == (cs[2] % 16) * 16 + cs[3] \div 4
             b3 == (cs[3] % 4) * 64 + cs[4]
         IN  IF cs[3] = Pad THEN <<b1>>
             ELSE IF cs[4] = Pad THEN <<b1, b2>>
             ELSE <<b1, b2, b3>> \o b64decode(SubSeq(cs, 5, Len(cs)))

RowMatchesWidgets(df) ==
    /\ df.columns = <<"sqft_living", "bedrooms", "bathrooms", "floors", "grade",
                      "waterfront", "yr_built">>
    /\ Len(df.row) = 7
    /\ \A i \in 1..7 : df.row[i] = widgets[df.columns[i]]

\* C1: when loading the model fails (file missing, or any other exception while
\* loading) the run completes with no exception escaping, `model` stays None, the
\* load error is reported (one message for the missing file, another for any
\* other failure), the form and the Predict button are not drawn, and the
\* "prediction unavailable" warning is drawn.
C1_LoadFailureDegrades ==
    (page.drawn /\ run.load_raised # "none") =>
        /\ ~page.escaped
        /\ model = "None"
        /\ page.load_error = IF run.load_raised = "FileNotFoundError"
                             THEN "not_found" ELSE "load_error"
        /\ ~page.form
        /\ page.unavailable_warning
        /\ run.predict_calls = 0
        /\ page.result = "none"

C1_Witness ==
    /\ run.trigger = "input_change"
    /\ run.load_raised = "UnpicklingError"
    /\ page.load_error = "load_error"
    /\ page.unavailable_warning

\* C2: a submission on which predict raises shows "Prediction failed" and the run
\* does not crash; the form stays on the page, every submission calls predict
\* whatever happened before, and a submission on which predict returns shows
\* the price.
C2_PredictFailureIsPerSubmission ==
    /\ run.pressed => run.predict_calls = 1
    /\ run.predict_outcome = "raised" =>
          page.result = "failed" /\ ~page.escaped /\ page.form
    /\ run.predict_outcome = "returned" =>
          page.result = "price" /\ ~page.escaped /\ page.form
    /\ (run.trigger = "submit" /\ Truthy(model)) => run.pressed

C2_Witness ==
    /\ prev_result = "failed"
    /\ run.trigger = "submit"
    /\ page.result = "price"

\* C3: predict is called at most once per run, and only in a run started by the
\* Predict Price button in which the model was loaded.
C3_PredictOnlyOnSubmitWithModel ==
    /\ run.predict_calls <= 1
    /\ run.predict_calls > 0 =>
          /\ run.trigger = "submit"
          /\ run.unpickled
          /\ run.load_raised = "none"
          /\ model # "None"
    /\ run.trigger # "submit" => run.predict_outcome = "not_called"

C3_Witness ==
    /\ run.predict_calls = 1
    /\ run.trigger = "submit"
    /\ prev_result = "none"

\* C4: the model file is deserialized only once per process, over any sequence
\* of interactions.
C4_ModelLoadedOnce == pickle_loads <= 1

\* C5: the row passed to predict has exactly the 7 columns sqft_living, bedrooms,
\* bathrooms, floors, grade, waterfront, yr_built in this order, each holding the
\* current value of the control of the same name.
C5_FeatureRowMatchesControls ==
    run.predict_calls > 0 => RowMatchesWidgets(page.features_df)

C5_Witness ==
    /\ run.predict_calls > 0
    /\ \A n \in DOMAIN ControlRange : widgets[n] \in ControlRange[n]
    /\ widgets.bathrooms # widgets.floors
    /\ RowMatchesWidgets(page.features_df)

\* C6: with no image the background is the static fallback, not animated and
\* without keyframes; with N >= 1 images and interval d the cycle lasts N*d, every
\* image i has a start keyframe at i*100/N percent showing it, every keyframe
\* before the last lies in the slice of the image it shows (N groups in upload
\* order), and the last keyframe is 100% showing the first image.
C6_SlideshowShape ==
    run.trigger = "set_cinematic_bg" =>
        LET urls == base64_image_urls
            N    == Len(urls)
            kf   == css.keyframes
            L    == Len(kf)
        IN  IF N = 0
            THEN /\ ~css.animated
                 /\ kf = <<>>
                 /\ css.image = BASE64_FALLBACK_IMAGE
            ELSE /\ css.animated
                 /\ css.duration = N * interval_per_image
                 /\ css.image = urls[1]
                 /\ L >= N + 1
                 /\ kf[L] = [percent |-> 10000, url |-> urls[1]]
                 /\ \A i \in 0..(N - 1) :
                       \E k \in 1..(L - 1) :
                          /\ kf[k].url = urls[i + 1]
                          /\ PrintedAt(kf[k].percent, i * 10000, N)
                 /\ \A k \in 1..(L - 1) :
                       \E i \in 0..(N - 1) :
                          /\ kf[k].url = urls[i + 1]
                          /\ 2 * i * 10000 - N <= 2 * N * kf[k].percent
                          /\ 2 * N * kf[k].percent < 2 * (i + 1) * 10000 - N
                 /\ \A k \in 1..(L - 1) : kf[k].percent <= kf[k + 1].percent

C6_Witness ==
    /\ run.trigger = "set_cinematic_bg"
    /\ Len(base64_image_urls) = 3
    /\ interval_per_image = 6
    /\ css.duration = 18
    /\ css.keyframes[1].percent = 0
    /\ \E k \in 1..Len(css.keyframes) : css.keyframes[k].percent = 3333
    /\ \E k \in 1..Len(css.keyframes) : css.keyframes[k].percent = 6667

\* C7: every image i of 0..N-1, the last one included, has a hold keyframe showing
\* it at i*100/N + (100/N)*(1 - 1/d) percent.
C7_EveryImageHeld ==
    (run.trigger = "set_cinematic_bg" /\ Len(base64_image_urls) >= 1) =>
        LET urls == base64_image_urls
            N    == Len(urls)
            d    == interval_per_image
            kf   == css.keyframes
        IN  \A i \in 0..(N - 1) :
               \E k \in 1..Len(kf) :
                  /\ kf[k].url = urls[i + 1]
                  /\ PrintedAt(kf[k].percent, 10000 * (i * d + d - 1), d * N)

\* C8: the urls given to the slideshow are those of the readable files, in upload
\* order: data:<declared type, image/png when none>;base64,<the file's bytes in
\* base64>; every unreadable file is reported and adds nothing, and the other
\* files of its batch are still converted; a batch with no readable file gives
\* the static background.
C8_UrlsAreReadableFilesInOrder ==
    run.trigger \in {"sidebar", "set_cinematic_bg"} =>
        LET ok   == SelectSeq(uploaded_files, LAMBDA f : f.readable)
            urls == base64_image_urls
        IN  /\ ~page.escaped
            /\ Len(urls) = Len(ok)
            /\ \A k \in 1..Len(ok) :
                  /\ Len(urls[k]) = 4
                  /\ urls[k][1] = "data:"
                  /\ urls[k][2] = IF ok[k].type = "" THEN "image/png" ELSE ok[k].type
                  /\ urls[k][3] = ";base64,"
                  /\ Len(urls[k][4]) % 4 = 0
                  /\ \A c \in 1..Len(urls[k][4]) : urls[k][4][c] \in 0..Pad
                  /\ b64decode(urls[k][4]) = ok[k].bytes
            /\ \A k \in 1..Len(uploaded_files) :
                  (~uploaded_files[k].readable) <=>
                      (\E e \in 1..Len(page.image_errors) : page.image_errors[e] = k)
            /\ (run.trigger = "set_cinematic_bg" /\ Len(ok) = 0) => ~css.animated

C8_Witness ==
    /\ run.trigger = "set_cinematic_bg"
    /\ Len(uploaded_files) = 3
    /\ ~uploaded_files[1].readable
    /\ uploaded_files[2].readable /\ uploaded_files[2].type = ""
    /\ uploaded_files[3].readable /\ uploaded_files[3].type = "image/jpeg"
    /\ Len(base64_image_urls) = 2
    /\ base64_image_urls[1][2] = "image/png"
    /\ page.image_errors = <<1>>

\* C9: a price or a failure message is on the page only after a run started by
\* the Predict Price button, and goes with the values the controls hold; after a
\* run started by anything else the page shows no result.
C9_ShownResultIsFresh ==
    /\ page.result # "none" =>
          /\ run.trigger = "submit"
          /\ RowMatchesWidgets(page.features_df)
    /\ run.trigger # "submit" => page.result = "none"

C9_Witness ==
    /\ prev_result = "price"
    /\ run.trigger = "input_change"
    /\ page.form
    /\ page.result = "none"

\* C10: the form is drawn exactly when loading raised nothing, whatever object it
\* returned, and the "prediction unavailable" warning exactly when loading
\* failed.
C10_FormIffLoadSucceeded ==
    page.drawn =>
        /\ page.form <=> run.load_raised = "none"
        /\ page.unavailable_warning <=> run.load_raised # "none"

=============================================================================
